---- MODULE Spec2Model ----
(***************************************************************************)
(* hot-search-scraper: the history store (storage.py), the table it writes *)
(* (init_db.py) and the scrape cycle that feeds it (main.py).              *)
(*                                                                         *)
(* Python strings are sequences of one-character strings, so that strip(), *)
(* split(" ") and the date prefix are computed and not assumed.            *)
(* Python values of a raw item are tagged records: None, str, int, float   *)
(* and list.  A raw item is a function from its keys to such values.       *)
(***************************************************************************)
EXTENDS Integers, Sequences, FiniteSets, TLC

\* ------------------------------------------------------------------ bounds
MaxBatch == 2      \* longest list of raw items one adapter run returns
MaxCalls == 2      \* upsert_history calls that reach the store, in a run
MaxProviders == 2  \* longest provider list given to run_once
MaxHeatLen == 3    \* longest text tried under num of a weibo entry
MaxTotal == 45     \* largest count the history page is given by count_history

\* ------------------------------------------------------- python values
PyNone == [t |-> "none"]
PyStr(s) == [t |-> "str", v |-> s]
PyInt(n) == [t |-> "int", v |-> n]
PyFloat(i, f) == [t |-> "float", v |-> <<i, f>>]
PyList(xs) == [t |-> "list", v |-> xs]

\* bool(x): None, "", 0, 0.0 and [] are falsy
Truthy(x) ==
  CASE x.t = "none" -> FALSE
    [] x.t = "str" -> x.v # <<>>
    [] x.t = "int" -> x.v # 0
    [] x.t = "float" -> x.v # <<0, 0>>
    [] x.t = "list" -> x.v # <<>>

\* a or b
PyOr(a, b) == IF Truthy(a) THEN a ELSE b

\* it.get(k): the value under k, None when the key is absent
Get(it, k) == IF k \in DOMAIN it THEN it[k] ELSE PyNone

\* it.get(k, d)
GetDefault(it, k, d) == IF k \in DOMAIN it THEN it[k] ELSE d

\* ------------------------------------------------------- python strings
Whitespace == {" ", "\t", "\n"}

\* str.strip(): s without its leading and trailing whitespace
Strip(s) ==
  LET solid == {i \in 1..Len(s) : s[i] \notin Whitespace}
  IN  IF solid = {} THEN <<>>
      ELSE SubSeq(s, CHOOSE i \in solid : \A k \in solid : i <= k,
                     CHOOSE i \in solid : \A k \in solid : k <= i)

\* s.split(" ")[0]: everything before the first space character
SplitFirst(s) ==
  LET spaces == {i \in 1..Len(s) : s[i] = " "}
  IN  IF spaces = {} THEN s
      ELSE SubSeq(s, 1, (CHOOSE i \in spaces : \A k \in spaces : i <= k) - 1)

\* the first n characters of s
Prefix(s, n) == SubSeq(s, 1, IF Len(s) < n THEN Len(s) ELSE n)

Digits == <<"0", "1", "2", "3", "4", "5", "6", "7", "8", "9">>

IsDigit(c) == c \in {"0", "1", "2", "3", "4", "5", "6", "7", "8", "9"}

DigitVal(c) == (CHOOSE d \in 1..10 : Digits[d] = c) - 1

RECURSIVE ParseDigits(_)
ParseDigits(s) ==
  IF s = <<>> THEN 0
  ELSE 10 * ParseDigits(SubSeq(s, 1, Len(s) - 1)) + DigitVal(s[Len(s)])

AllDigits(s) == s # <<>> /\ \A i \in 1..Len(s) : IsDigit(s[i])

\* positions of "." in s
Dots(s) == {i \in 1..Len(s) : s[i] = "."}

\* int(x) succeeds: an int, a float, or a str of digits (after strip)
IntOk(x) ==
  \/ x.t \in {"int", "float"}
  \/ x.t = "str" /\ AllDigits(Strip(x.v))

\* float(x) succeeds on a str: digits with at most one ".", not "." alone
FloatOk(x) ==
  /\ x.t = "str"
  /\ LET s == Strip(x.v)
     IN  /\ Cardinality(Dots(s)) <= 1
         /\ \E i \in 1..Len(s) : IsDigit(s[i])
         /\ \A i \in 1..Len(s) : IsDigit(s[i]) \/ s[i] = "."

\* a coercion that parses integers only
AsInt_IntOnly(x) ==
  IF x.t = "none" \/ (x.t = "str" /\ x.v = <<>>) THEN PyNone
  ELSE IF x.t = "int" THEN x
  ELSE IF x.t = "str" /\ AllDigits(Strip(x.v)) THEN PyInt(ParseDigits(Strip(x.v)))
  ELSE PyNone

\* HotItemsHistoryDB._as_int
AsInt(x) ==
  IF x.t = "none" \/ (x.t = "str" /\ x.v = <<>>) THEN PyNone
  ELSE IF IntOk(x)
       THEN CASE x.t = "int" -> x
              [] x.t = "float" -> PyInt(x.v[1])
              [] x.t = "str" -> PyInt(ParseDigits(Strip(x.v)))
       ELSE IF FloatOk(x)
            THEN LET s == Strip(x.v)
                     d == IF Dots(s) = {} THEN Len(s) + 1
                          ELSE CHOOSE i \in Dots(s) : TRUE
                 IN  PyInt(ParseDigits(SubSeq(s, 1, d - 1)))
            ELSE PyNone

\* str(n) for n >= 0
RECURSIVE FormatInt(_)
FormatInt(n) ==
  IF n < 10 THEN <<Digits[n + 1]>>
  ELSE FormatInt(n \div 10) \o <<Digits[(n % 10) + 1]>>

\* sep.join(parts)
RECURSIVE Join(_, _)
Join(sep, parts) ==
  IF parts = <<>> THEN <<>>
  ELSE IF Len(parts) = 1 THEN parts[1]
  ELSE parts[1] \o sep \o Join(sep, Tail(parts))

\* ---------------------------------------------------------------- json
\* the characters of the keys main.py routes into extra_json
KeyChars(k) ==
  CASE k = "word_scheme" -> <<"w","o","r","d","_","s","c","h","e","m","e">>
    [] k = "avatar_url" -> <<"a","v","a","t","a","r","_","u","r","l">>
    [] k = "id" -> <<"i","d">>
    [] k = "ctime" -> <<"c","t","i","m","e">>
    [] k = "level" -> <<"l","e","v","e","l">>
    [] k = "comment_num" -> <<"c","o","m","m","e","n","t","_","n","u","m">>

\* the concatenation of the sequences of parts
RECURSIVE Concat(_)
Concat(parts) == IF parts = <<>> THEN <<>> ELSE Head(parts) \o Concat(Tail(parts))

\* s with " and \ escaped, as json.dumps writes them
JsonEscape(s) ==
  Concat([i \in 1..Len(s) |->
            IF s[i] \in {"\"", "\\"} THEN <<"\\", s[i]>> ELSE <<s[i]>>])

\* a JSON string literal: quotes around the escaped s
JsonString(s) == <<"\"">> \o JsonEscape(s) \o <<"\"">>

RECURSIVE JsonValue(_)
JsonValue(x) ==
  CASE x.t = "none" -> <<"n","u","l","l">>
    [] x.t = "str" -> JsonString(x.v)
    [] x.t = "int" -> FormatInt(x.v)
    [] x.t = "float" -> FormatInt(x.v[1]) \o <<".">> \o FormatInt(x.v[2])
    [] x.t = "list" ->
         <<"[">> \o Join(<<",", " ">>, [i \in 1..Len(x.v) |-> JsonString(x.v[i])])
         \o <<"]">>

\* json.dumps(extra, ensure_ascii=False) of the dict holding, in the order
\* of ks, the entries of it under the keys ks
JsonDumps(it, ks) ==
  <<"{">>
  \o Join(<<",", " ">>,
          [i \in 1..Len(ks) |->
             JsonString(KeyChars(ks[i])) \o <<":", " ">> \o JsonValue(it[ks[i]])])
  \o <<"}">>

\* ------------------------------------------------- record normalisation
\* (v or "").strip() raises AttributeError when v is truthy and not a str
CanStrip(v) == ~Truthy(v) \/ v.t = "str"

\* (v or "").strip()
Stripped(v) == IF Truthy(v) THEN Strip(v.v) ELSE <<>>

\* the routing policy of one upsert_history call; "" stands for None
Policy(topic, tags, extra) ==
  [topic_key_field |-> topic, tags_join_from |-> tags, extra_fields |-> extra]

\* tags_text: "|".join of the stripped non-blank elements, None if none
TagsText(it, pol) ==
  IF pol.tags_join_from # "" /\ Get(it, pol.tags_join_from).t = "list"
  THEN LET xs == it[pol.tags_join_from].v
           tags == [i \in 1..Len(SelectSeq(xs, LAMBDA x : Strip(x) # <<>>)) |->
                      Strip(SelectSeq(xs, LAMBDA x : Strip(x) # <<>>)[i])]
       IN  IF tags # <<>> THEN PyStr(Join(<<"|">>, tags)) ELSE PyNone
  ELSE PyNone

\* an extra_json that writes every named field, null for a missing one
ExtraJson_AllNamed(it, pol) ==
  LET ks == pol.extra_fields
  IN  IF ks # <<>>
      THEN PyStr(<<"{">>
                 \o Join(<<",", " ">>,
                         [i \in 1..Len(ks) |->
                            JsonString(KeyChars(ks[i])) \o <<":", " ">>
                            \o JsonValue(Get(it, ks[i]))])
                 \o <<"}">>)
      ELSE PyNone

\* extra_json: the named fields the item has, serialised; None if none
ExtraJson(it, pol) ==
  LET ks == SelectSeq(pol.extra_fields, LAMBDA k : k \in DOMAIN it)
  IN  IF ks # <<>> THEN PyStr(JsonDumps(it, ks)) ELSE PyNone

\* the title, url or scraped_at of the item makes .strip() raise
ItemRaises(it) ==
  \/ ~CanStrip(Get(it, "title"))
  \/ ~CanStrip(Get(it, "url"))
  \/ ~CanStrip(Get(it, "scraped_at"))

\* the required-field gate: title and url non-empty after strip
PassesGate(it) ==
  Stripped(Get(it, "title")) # <<>> /\ Stripped(Get(it, "url")) # <<>>

\* a row whose heat_value falls back to the number in heat_text
MakeRow_HeatFromText(platform, it, pol, nowStr) ==
  LET given == Stripped(Get(it, "scraped_at"))
      scraped_at == IF given = <<>> THEN nowStr ELSE given
      heat == AsInt(GetDefault(it, "heat_value", Get(it, "num")))
  IN  [platform |-> platform,
       topic_key |-> IF pol.topic_key_field # ""
                     THEN Get(it, pol.topic_key_field) ELSE PyNone,
       title |-> Stripped(Get(it, "title")),
       url |-> Stripped(Get(it, "url")),
       image_url |-> Get(it, "image_url"),
       excerpt |-> Get(it, "excerpt"),
       heat_text |-> Get(it, "heat_text"),
       heat_value |-> IF heat = PyNone THEN AsInt(Get(it, "heat_text")) ELSE heat,
       rank |-> AsInt(Get(it, "rank")),
       tags_text |-> TagsText(it, pol),
       scraped_at |-> scraped_at,
       scraped_date |-> SplitFirst(scraped_at),
       extra_json |-> ExtraJson(it, pol)]

\* the tuple appended to rows for an item that passes the gate; nowStr is
\* datetime.now().strftime("%Y-%m-%d %H:%M:%S")
MakeRow(platform, it, pol, nowStr) ==
  LET given == Stripped(Get(it, "scraped_at"))
      scraped_at == IF given = <<>> THEN nowStr ELSE given
  IN  [platform |-> platform,
       topic_key |-> IF pol.topic_key_field # ""
                     THEN Get(it, pol.topic_key_field) ELSE PyNone,
       title |-> Stripped(Get(it, "title")),
       url |-> Stripped(Get(it, "url")),
       image_url |-> Get(it, "image_url"),
       excerpt |-> Get(it, "excerpt"),
       heat_text |-> Get(it, "heat_text"),
       heat_value |-> AsInt(GetDefault(it, "heat_value", Get(it, "num"))),
       rank |-> AsInt(Get(it, "rank")),
       tags_text |-> TagsText(it, pol),
       scraped_at |-> scraped_at,
       scraped_date |-> SplitFirst(scraped_at),
       extra_json |-> ExtraJson(it, pol)]

\* the for loop of upsert_history over items: it raises AttributeError at
\* the first item whose .strip() raises, before anything is written.
RECURSIVE BuildRows(_, _, _, _)
BuildRows(platform, items, pol, nowStr) ==
  IF items = <<>> THEN [raised |-> FALSE, rows |-> <<>>]
  ELSE IF ItemRaises(Head(items)) THEN [raised |-> TRUE, rows |-> <<>>]
  ELSE LET rest == BuildRows(platform, Tail(items), pol, nowStr)
       IN  IF rest.raised THEN rest
           ELSE IF PassesGate(Head(items))
                THEN [raised |-> FALSE,
                      rows |-> <<MakeRow(platform, Head(items), pol, nowStr)>>
                               \o rest.rows]
                ELSE rest

\* ------------------------------------------------ the table and SQLite
\* UNIQUE(platform, url, scraped_date)
Key(r) == <<r.platform, r.url, r.scraped_date>>

Keys(rows) == {Key(r) : r \in rows}

\* sqlite3 binds None, int, float and str; any other type raises
\* ProgrammingError ("Error binding parameter")
Bindable(v) == v.t \in {"none", "str", "int", "float"}

RowBindable(row) ==
  /\ Bindable(row.topic_key)
  /\ Bindable(row.image_url)
  /\ Bindable(row.excerpt)
  /\ Bindable(row.heat_text)

\* a TEXT column stores a number as its text
TextAffinity(v) ==
  CASE v.t = "int" -> PyStr(FormatInt(v.v))
    [] v.t = "float" -> PyStr(FormatInt(v.v[1]) \o <<".">> \o FormatInt(v.v[2]))
    [] OTHER -> v

\* the values of the columns as the table holds them
Stored(row) ==
  [row EXCEPT !.topic_key = TextAffinity(@),
              !.image_url = TextAffinity(@),
              !.excerpt = TextAffinity(@),
              !.heat_text = TextAffinity(@)]

\* the columns ON CONFLICT ... DO UPDATE SET assigns from excluded.*
MutableFields ==
  {"topic_key", "title", "image_url", "excerpt", "heat_text", "heat_value",
   "rank", "tags_text", "scraped_at", "extra_json"}

AllFields == MutableFields \cup {"id", "platform", "url", "scraped_date"}

\* DO UPDATE SET with COALESCE(excluded.x, x): a NULL keeps the old value
UpdateRow_Coalesce(old, new) ==
  [f \in AllFields |->
     IF f \in {"title", "scraped_at"} THEN new[f]
     ELSE IF f \in MutableFields /\ new[f] # PyNone THEN new[f]
     ELSE old[f]]

\* DO UPDATE SET: the old row with every mutable column taken from new
UpdateRow(old, new) ==
  [f \in AllFields |-> IF f \in MutableFields THEN new[f] ELSE old[f]]

\* INSERT: the new row under the id AUTOINCREMENT hands out
InsertRow(id, new) ==
  [f \in AllFields |-> IF f = "id" THEN id ELSE new[f]]

\* a plain INSERT into a table without the UNIQUE constraint
ExecRow_NoConflict(tbl, row) ==
  [rows |-> tbl.rows \cup {InsertRow(tbl.seq + 1, Stored(row))},
   seq |-> tbl.seq + 1]

\* a plain INSERT under UNIQUE ... ON CONFLICT REPLACE: the old row is
\* deleted and the new one inserted under a fresh id
ExecRow_Replace(tbl, row) ==
  [rows |-> {r \in tbl.rows : Key(r) # Key(Stored(row))}
            \cup {InsertRow(tbl.seq + 1, Stored(row))},
   seq |-> tbl.seq + 1]

\* INSERT ... ON CONFLICT DO NOTHING: the first row of a key stays
ExecRow_DoNothing(tbl, row) ==
  IF \E r \in tbl.rows : Key(r) = Key(Stored(row))
  THEN [rows |-> tbl.rows, seq |-> tbl.seq + 1]
  ELSE [rows |-> tbl.rows \cup {InsertRow(tbl.seq + 1, Stored(row))},
        seq |-> tbl.seq + 1]

\* one execution of the INSERT ... ON CONFLICT statement on the table
\* tbl = [rows, seq]; seq is the table's entry in sqlite_sequence, which
\* SQLite advances for the attempted insert also when the row is updated
ExecRow(tbl, row) ==
  LET new == Stored(row)
      hit == {r \in tbl.rows : Key(r) = Key(new)}
  IN  IF hit # {}
      THEN [rows |-> (tbl.rows \ hit) \cup {UpdateRow(r, new) : r \in hit},
            seq |-> tbl.seq + 1]
      ELSE [rows |-> tbl.rows \cup {InsertRow(tbl.seq + 1, new)},
            seq |-> tbl.seq + 1]

\* executemany(sql, rows): binds and executes row after row inside the
\* open transaction; a row that cannot be bound raises and leaves the
\* rows before it applied and the transaction open
RECURSIVE ExecuteMany(_, _)
ExecuteMany(tbl, rows) ==
  IF rows = <<>> THEN [tbl |-> tbl, raised |-> FALSE]
  ELSE IF ~RowBindable(Head(rows)) THEN [tbl |-> tbl, raised |-> TRUE]
  ELSE ExecuteMany(ExecRow(tbl, Head(rows)), Tail(rows))

\* ---------------------------------------------------- the orchestrator
\* main.py SPIDER_REGISTRY
SPIDER_REGISTRY == {"zhihu", "weibo", "douyin", "baidu", "cailian"}

\* name.lower() on the provider names used here
Lower(name) ==
  CASE name = "Baidu" -> "baidu"
    [] name = "WEIBO" -> "weibo"
    [] OTHER -> name

\* the routing policy run_once passes for a platform; tags_join_from=None
PlatformPolicy(name) ==
  CASE name = "weibo" -> Policy("word_scheme", "", <<"word_scheme">>)
    [] name = "douyin" -> Policy("sentence_id", "", <<>>)
    [] name = "baidu" -> Policy("", "", <<"avatar_url">>)
    [] name = "zhihu" -> Policy("", "", <<"avatar_url">>)
    [] name = "cailian" -> Policy("", "", <<"id", "ctime", "level", "comment_num">>)
    [] OTHER -> Policy("", "", <<>>)

\* the wall clock shows noon of one of these days of January 2025
Days == {1, 2}

\* datetime.now().strftime("%Y-%m-%d %H:%M:%S") at noon of day c
Strftime(c) ==
  <<"2","0","2","5","-","0","1","-">> \o <<Digits[(c \div 10) + 1], Digits[(c % 10) + 1]>>
  \o <<" ","1","2",":","0","0",":","0","0">>

\* --------------------------------------------------------------- inputs
Day1 == <<"2","0","2","5","-","0","1","-","0","1">>

At10 == Day1 \o <<" ","1","0",":","0","0",":","0","0">>

At11 == Day1 \o <<" ","1","1",":","0","0",":","0","0">>

IsoAt10 == Day1 \o <<"T","1","0",":","0","0",":","0","0">>

\* raw items a caller of upsert_history may pass: every field given,
ItemFull ==
  [title |-> PyStr(<<"X">>), url |-> PyStr(<<"a">>), scraped_at |-> PyStr(At10),
   image_url |-> PyStr(<<"i">>), excerpt |-> PyStr(<<"e">>),
   heat_text |-> PyStr(<<"7","9">>), heat_value |-> PyStr(<<"4","2">>),
   rank |-> PyFloat(42, 9), word_scheme |-> PyStr(<<"w">>),
   avatar_url |-> PyStr(<<"v">>), tags |-> PyList(<<<<"t">>, <<" ">>, <<" u">>>>)]

\* only a title and a url, to be stamped with the current time,
ItemSparse == [title |-> PyStr(<<" ","Y"," ">>), url |-> PyStr(<<"a">>)]

\* an ISO 8601 timestamp,
ItemIso ==
  [title |-> PyStr(<<"X">>), url |-> PyStr(<<"b">>), scraped_at |-> PyStr(IsoAt10)]

\* a value sqlite3 cannot bind,
ItemUnbindable ==
  [title |-> PyStr(<<"Z">>), url |-> PyStr(<<"b">>), scraped_at |-> PyStr(At11),
   image_url |-> PyList(<<<<"i">>>>)]

\* a blank title with an epoch number as scraped_at,
ItemBlankEpoch ==
  [title |-> PyStr(<<" ">>), url |-> PyStr(<<"a">>), scraped_at |-> PyInt(1700)]

\* and no title at all
ItemNoTitle ==
  [title |-> PyNone, url |-> PyStr(<<"b">>), scraped_at |-> PyStr(<<" ">>)]

\* sequences over S of length 0..n
RECURSIVE SeqsUpTo(_, _)
SeqsUpTo(S, n) ==
  IF n = 0 THEN {<<>>}
  ELSE LET shorter == SeqsUpTo(S, n - 1)
       IN  shorter \cup {Append(q, x) : q \in shorter, x \in S}

\* the direct calls of upsert_history: every batch of well-formed items up
\* to MaxBatch, batches holding a malformed item, and a second platform
\* with a routing policy
ClientCalls ==
  LET plain == Policy("", "", <<>>)
      routed == Policy("word_scheme", "tags", <<"avatar_url", "ctime">>)
  IN  {[platform |-> "baidu", pol |-> plain, items |-> q] :
         q \in SeqsUpTo({ItemFull, ItemSparse}, MaxBatch)
               \cup {<<ItemFull, ItemUnbindable>>, <<ItemBlankEpoch, ItemFull>>,
                     <<ItemNoTitle, ItemFull>>, <<ItemIso>>}}
      \cup {[platform |-> "weibo", pol |-> routed, items |-> q] :
              q \in {<<ItemFull>>, <<ItemSparse, ItemFull>>}}

\* items as the adapters build them: scraped_at is always the adapter's
\* own strftime stamp; title, url and excerpt come from the remote payload
AdapterItems(nowStr) ==
  { [title |-> PyStr(<<"X">>), url |-> PyStr(<<"a">>), excerpt |-> PyStr(<<"e">>),
     word_scheme |-> PyStr(<<"w">>), scraped_at |-> PyStr(nowStr)],
    [title |-> PyStr(<<"Y">>), url |-> PyStr(<<"a">>), rank |-> PyInt(1),
     scraped_at |-> PyStr(nowStr)],
    [title |-> PyStr(<<"Z">>), url |-> PyStr(<<"b">>), excerpt |-> PyList(<<<<"e">>>>),
     scraped_at |-> PyStr(nowStr)],
    [title |-> PyStr(<<>>), url |-> PyStr(<<"b">>), scraped_at |-> PyStr(nowStr)] }

ProviderNames == {"weibo", "Baidu", "tieba"}

Day2 == SplitFirst(Strftime(2))

\* the batches a program that also reads the store writes: titles,
\* excerpts and urls with the characters %, _ and \ and with letters of
\* both cases, several platforms, two days, equal heat values
ReadCalls ==
  LET plain == Policy("", "", <<>>)
  IN  { [platform |-> "baidu", pol |-> plain, items |->
           << [title |-> PyStr(<<"a", "%", "b">>), url |-> PyStr(<<"u">>),
               scraped_at |-> PyStr(At10), heat_value |-> PyInt(5)],
              [title |-> PyStr(<<"a", "X", "b">>), url |-> PyStr(<<"v">>),
               scraped_at |-> PyStr(At11), heat_value |-> PyInt(5),
               excerpt |-> PyStr(<<"x", "\\", "y">>)] >>],
        [platform |-> "weibo", pol |-> plain, items |->
           << [title |-> PyStr(<<"A", "_", "c">>), url |-> PyStr(<<"u">>),
               scraped_at |-> PyStr(Strftime(2)), rank |-> PyInt(2)] >>],
        [platform |-> "", pol |-> plain, items |->
           << [title |-> PyStr(<<"Q">>), url |-> PyStr(<<"w">>),
               scraped_at |-> PyStr(Strftime(2))] >>],
        [platform |-> "zhihu", pol |-> plain, items |->
           << [title |-> PyStr(<<"%">>), url |-> PyStr(<<"x", "_">>),
               scraped_at |-> PyStr(At10), heat_value |-> PyInt(7),
               rank |-> PyInt(1)] >>] }

\* values an adapter may put under heat_value, num or rank
Numerics ==
  {PyNone, PyStr(<<>>), PyStr(<<"4", "2">>), PyStr(<<" ", "7", " ">>),
   PyStr(<<"4", "2", ".", "9">>), PyStr(<<"a", "b", "c">>), PyStr(<<"1", ".", "2", ".", "3">>),
   PyInt(42), PyFloat(42, 9), PyList(<<<<"4", "2">>>>)}

\* items that differ in what they give under heat_value, num and rank;
\* all carry the heat_text "7904613"
HeatItems ==
  LET text == PyStr(<<"7", "9", "0", "4", "6", "1", "3">>)
  IN  {[title |-> PyStr(<<"X">>), url |-> PyStr(<<"a">>), scraped_at |-> PyStr(At10),
        heat_text |-> text]}
      \cup {[title |-> PyStr(<<"X">>), url |-> PyStr(<<"a">>), scraped_at |-> PyStr(At10),
             heat_text |-> text, heat_value |-> v] : v \in Numerics}
      \cup {[title |-> PyStr(<<"X">>), url |-> PyStr(<<"a">>), scraped_at |-> PyStr(At10),
             heat_text |-> text, num |-> v] : v \in {PyInt(5), PyStr(<<"a", "b", "c">>)}}
      \cup {[title |-> PyStr(<<"X">>), url |-> PyStr(<<"a">>), scraped_at |-> PyStr(At10),
             heat_text |-> text, heat_value |-> v, num |-> PyInt(5)] :
               v \in {PyNone, PyStr(<<"a", "b", "c">>), PyStr(<<"4", "2">>)}}
      \cup {[title |-> PyStr(<<"X">>), url |-> PyStr(<<"a">>), scraped_at |-> PyStr(At10),
             heat_text |-> text, rank |-> v] : v \in Numerics}

\* values an adapter may put under the field tags are joined from
TagValues ==
  {PyList(<<<<" ", "x", " ">>, <<" ">>, <<"y">>>>), PyList(<<<<" ">>, <<>>>>),
   PyList(<<>>), PyStr(<<"x">>), PyNone}

\* items that differ in which of the routed fields they carry
RouteItems ==
  {[title |-> PyStr(<<"Y">>), url |-> PyStr(<<"b">>), scraped_at |-> PyStr(At10)]}
  \cup {[title |-> PyStr(<<"Y">>), url |-> PyStr(<<"b">>), scraped_at |-> PyStr(At10),
         word_scheme |-> PyStr(<<"w">>)]}
  \cup {[title |-> PyStr(<<"Y">>), url |-> PyStr(<<"b">>), scraped_at |-> PyStr(At10),
         tags |-> t] : t \in TagValues}
  \cup {[title |-> PyStr(<<"Y">>), url |-> PyStr(<<"b">>), scraped_at |-> PyStr(At10),
         avatar_url |-> PyStr(<<"v">>)]}
  \cup {[title |-> PyStr(<<"Y">>), url |-> PyStr(<<"b">>), scraped_at |-> PyStr(At10),
         ctime |-> v] : v \in {PyNone, PyInt(17)}}
  \cup {[title |-> PyStr(<<"Y">>), url |-> PyStr(<<"b">>), scraped_at |-> PyStr(At10),
         word_scheme |-> PyStr(<<"w">>), tags |-> t, avatar_url |-> PyStr(<<"v">>),
         ctime |-> PyInt(17)] : t \in TagValues}

\* the routing policies: none, the one run_once uses for weibo, and one
\* that names a topic key, a tags field and two extra fields
Policies ==
  {Policy("", "", <<>>), Policy("word_scheme", "", <<"word_scheme">>),
   Policy("word_scheme", "tags", <<"avatar_url", "ctime">>)}

\* calls of upsert_history with one such item, or with two
FieldCalls ==
  {[platform |-> "baidu", pol |-> Policy("", "", <<>>), items |-> <<it>>] :
     it \in HeatItems}
  \cup {[platform |-> "weibo", pol |-> pol, items |-> <<it>>] :
          it \in RouteItems, pol \in Policies}
  \cup {[platform |-> "weibo", pol |-> Policy("word_scheme", "tags", <<"avatar_url", "ctime">>),
          items |-> <<h, r>>] :
          h \in {x \in HeatItems : "num" \in DOMAIN x},
          r \in {x \in RouteItems : DOMAIN x \cap {"tags", "ctime"} = {} /\ Cardinality(DOMAIN x) = 4}}

\* every call of upsert_history the inputs above allow
KnownCalls ==
  {[platform |-> c.platform, items |-> c.items, pol |-> c.pol, nowStr |-> Strftime(d)] :
     c \in ClientCalls \cup ReadCalls \cup FieldCalls, d \in Days}
  \cup
  UNION {{[platform |-> Lower(n), items |-> q, pol |-> PlatformPolicy(Lower(n)),
            nowStr |-> Strftime(d)] :
             n \in ProviderNames, q \in SeqsUpTo(AdapterItems(Strftime(d)), MaxBatch)} :
         d \in Days}

\* BuildRows of the known calls, evaluated once
BuiltRows ==
  {<<k, BuildRows(k.platform, k.items, k.pol, k.nowStr)>> : k \in KnownCalls}

\* the rows the for loop of upsert_history builds
Rows(platform, items, pol, nowStr) ==
  LET k == [platform |-> platform, items |-> items, pol |-> pol, nowStr |-> nowStr]
  IN  IF k \in KnownCalls
      THEN (CHOOSE b \in BuiltRows : b[1] = k)[2]
      ELSE BuildRows(platform, items, pol, nowStr)

\* HotItemsHistoryDB.upsert_history on a connection whose view of the
\* table is tbl: the outcome, the returned count, the view afterwards,
\* whether a transaction is left open and whether commit() ran
UpsertHistory(tbl, inTx, platform, items, pol, nowStr) ==
  LET b == Rows(platform, items, pol, nowStr)
  IN  IF b.raised
      THEN [outcome |-> "AttributeError", ret |-> 0, tbl |-> tbl,
            inTx |-> inTx, commit |-> FALSE, rows |-> <<>>]
      ELSE IF b.rows = <<>>
      THEN [outcome |-> "ok", ret |-> 0, tbl |-> tbl,
            inTx |-> inTx, commit |-> FALSE, rows |-> <<>>]
      ELSE LET e == ExecuteMany(tbl, b.rows)
           IN  IF e.raised
               THEN [outcome |-> "ProgrammingError", ret |-> 0, tbl |-> e.tbl,
                     inTx |-> TRUE, commit |-> FALSE, rows |-> b.rows]
               ELSE [outcome |-> "ok", ret |-> Len(b.rows), tbl |-> e.tbl,
                     inTx |-> FALSE, commit |-> TRUE, rows |-> b.rows]

\* ------------------------------------------------- the weibo adapter
\* a Python int of any size, by its sign and its decimal digits
PyBigInt(neg, digits) == [t |-> "int", neg |-> neg, digits |-> digits]

\* the digits without leading zeros, and whether the number is negative
Canonical(neg, q) ==
  LET solid == {i \in 1..Len(q) : q[i] # "0"}
  IN  IF solid = {} THEN PyBigInt(FALSE, <<"0">>)
      ELSE PyBigInt(neg, SubSeq(q, CHOOSE i \in solid : \A k \in solid : i <= k, Len(q)))

\* str(num) of the values the payload gives under num
StrOf(x) == IF x.t = "int" THEN FormatInt(x.v) ELSE x.v

\* the character is matched by [\d\.]
IsNumChar(c) == IsDigit(c) \/ c = "."

\* float(t) of a text of digits and dots succeeds
FloatText(t) ==
  /\ Cardinality(Dots(t)) <= 1
  /\ \E i \in 1..Len(t) : IsDigit(t[i])
  /\ \A i \in 1..Len(t) : IsNumChar(t[i])

\* int(float(t) * 10^k), negated when neg, for such a text: the digits
\* shifted by k places, the fraction cut off
Scaled(neg, t, k) ==
  LET d == IF Dots(t) = {} THEN Len(t) + 1 ELSE CHOOSE i \in Dots(t) : TRUE
      digits == SubSeq(t, 1, d - 1) \o SubSeq(t, d + 1, Len(t))
      places == IF Dots(t) = {} THEN 0 ELSE Len(t) - d
  IN  Canonical(neg, IF k >= places
                     THEN digits \o [i \in 1..(k - places) |-> "0"]
                     ELSE SubSeq(digits, 1, Len(digits) - (places - k)))

\* re.match(r"^\s*([\d\.]+)\s*(万|亿)?\s*$", s): the longest run of
\* digits and dots s starts with, and the unit after it; the characters
\* 万 and 亿 are written "wan" and "yi"
HeatMatch(s) ==
  LET n == CHOOSE k \in 0..Len(s) :
             /\ \A i \in 1..k : IsNumChar(s[i])
             /\ k = Len(s) \/ ~IsNumChar(s[k + 1])
      rest == Strip(SubSeq(s, n + 1, Len(s)))
  IN  [matched |-> n >= 1 /\ rest \in {<<>>, <<"wan">>, <<"yi">>},
       number |-> SubSeq(s, 1, n),
       unit |-> IF rest = <<>> THEN "" ELSE rest[1]]

\* int(float(s)) inside try/except for an s the pattern does not match:
\* a signed number, or None
IntOfFloat(s) ==
  IF s[1] \in {"-", "+"} /\ FloatText(Tail(s))
  THEN Scaled(s[1] = "-", Tail(s), 0)
  ELSE IF FloatText(s) THEN Scaled(FALSE, s, 0)
  ELSE PyNone

\* WeiboHotSpider._parse_heat_value: an integer, None, or the ValueError
\* that float() raises and nothing catches
ParseHeatValue(num) ==
  IF num = PyNone THEN PyNone
  ELSE LET s == Strip(StrOf(num))
           m == HeatMatch(s)
       IN  IF s = <<>> THEN PyNone
           ELSE IF ~m.matched THEN IntOfFloat(s)
           ELSE IF ~FloatText(m.number) THEN [t |-> "raise", v |-> "ValueError"]
           ELSE Scaled(FALSE, m.number,
                       CASE m.unit = "wan" -> 4
                         [] m.unit = "yi" -> 8
                         [] OTHER -> 0)

\* the characters the texts under num are written in; on the digits 1
\* and 2 the float product is the exact one
HeatAlphabet == {"1", "2", ".", " ", "wan", "yi", "a", "-"}

\* the values the payload may give under num: None, an int, every text
\* of up to MaxHeatLen characters, and longer texts
HeatInputs ==
  {PyNone, PyInt(7904613)}
  \cup {PyStr(s) : s \in SeqsUpTo(HeatAlphabet, MaxHeatLen)}
  \cup {PyStr(<<"7", "9", "0", "4", "6", "1", "3">>),
        PyStr(<<"2", "3", ".", "0", "0", " ", "wan">>),
        PyStr(<<"1", ".", "5", " ", "yi">>),
        PyStr(<<"1", ".", "2", ".", "3">>),
        PyStr(<<"a", "b", "c">>)}

\* ----------------------------------------------------------- the reads
\* the ASCII characters the inputs are written in, in code point order
Ascii ==
  <<" ", "%", "-", ".", "0", "1", "2", "3", "4", "5", "6", "7", "8", "9", ":",
    "A", "B", "C", "D", "E", "F", "G", "H", "I", "J", "K", "L", "M", "N", "O",
    "P", "Q", "R", "S", "T", "U", "V", "W", "X", "Y", "Z", "\\", "_",
    "a", "b", "c", "d", "e", "f", "g", "h", "i", "j", "k", "l", "m", "n", "o",
    "p", "q", "r", "s", "t", "u", "v", "w", "x", "y", "z", "|">>

\* position of each character in Ascii
AsciiIndex ==
  [c \in {Ascii[i] : i \in 1..Len(Ascii)} |->
     CHOOSE i \in 1..Len(Ascii) : Ascii[i] = c]

\* the upper-case ASCII letters in lower case, every other character as
\* it is: the case folding of SQLite's LIKE
FoldChar(c) ==
  LET i == AsciiIndex[c]
  IN  IF i >= AsciiIndex["A"] /\ i <= AsciiIndex["Z"]
      THEN Ascii[i + (AsciiIndex["a"] - AsciiIndex["A"])]
      ELSE c

\* a <= b for TEXT values under the BINARY collation
RECURSIVE TextLeq(_, _)
TextLeq(a, b) ==
  IF a = <<>> THEN TRUE
  ELSE IF b = <<>> THEN FALSE
  ELSE IF Head(a) = Head(b) THEN TextLeq(Tail(a), Tail(b))
  ELSE AsciiIndex[Head(a)] < AsciiIndex[Head(b)]

\* str.replace(c, r) for a one-character c
Replace(s, c, r) ==
  Concat([i \in 1..Len(s) |-> IF s[i] = c THEN r ELSE <<s[i]>>])

\* an escaping that forgets the underscore
EscapeLike_NoUnderscore(s) ==
  Replace(Replace(s, "\\", <<"\\", "\\">>), "%", <<"\\", "%">>)

\* HotItemsHistoryDB._escape_like
EscapeLike(s) ==
  Replace(Replace(Replace(s, "\\", <<"\\", "\\">>), "%", <<"\\", "%">>),
          "_", <<"\\", "_">>)

\* text LIKE pat ESCAPE '\': % is any run of characters, _ any one
\* character, the character after the escape stands for itself, letters
\* match without regard to ASCII case
RECURSIVE LikeMatch(_, _)
LikeMatch(pat, text) ==
  IF pat = <<>> THEN text = <<>>
  ELSE IF Head(pat) = "\\"
  THEN /\ Len(pat) >= 2
       /\ text # <<>>
       /\ FoldChar(pat[2]) = FoldChar(Head(text))
       /\ LikeMatch(Tail(Tail(pat)), Tail(text))
  ELSE IF Head(pat) = "%"
  THEN \E k \in 0..Len(text) : LikeMatch(Tail(pat), SubSeq(text, k + 1, Len(text)))
  ELSE IF Head(pat) = "_"
  THEN text # <<>> /\ LikeMatch(Tail(pat), Tail(text))
  ELSE /\ text # <<>>
       /\ FoldChar(Head(pat)) = FoldChar(Head(text))
       /\ LikeMatch(Tail(pat), Tail(text))

\* column LIKE ? for a column that may be NULL: NULL matches nothing
ColumnLike(pat, v) == v.t = "str" /\ LikeMatch(pat, v.v)

\* the arguments keyword, platforms, date_from, date_to of the reads
Filter(keyword, platforms, date_from, date_to) ==
  [keyword |-> keyword, platforms |-> platforms,
   date_from |-> date_from, date_to |-> date_to]

\* a WHERE clause whose upper date bound is exclusive
Where_ExclusiveTo(f, r) ==
  /\ Truthy(f.platforms) =>
       \E i \in 1..Len(f.platforms.v) : f.platforms.v[i] = r.platform
  /\ Truthy(f.keyword) =>
       LET kw == <<"%">> \o EscapeLike(f.keyword.v) \o <<"%">>
       IN  \/ LikeMatch(kw, r.title)
           \/ ColumnLike(kw, r.excerpt)
           \/ LikeMatch(kw, r.url)
  /\ Truthy(f.date_from) => TextLeq(f.date_from.v, r.scraped_date)
  /\ Truthy(f.date_to) =>
       r.scraped_date # f.date_to.v /\ TextLeq(r.scraped_date, f.date_to.v)

\* the WHERE clause count_history builds, applied to row r
Where(f, r) ==
  /\ Truthy(f.platforms) =>
       \E i \in 1..Len(f.platforms.v) : f.platforms.v[i] = r.platform
  /\ Truthy(f.keyword) =>
       LET kw == <<"%">> \o EscapeLike(f.keyword.v) \o <<"%">>
       IN  \/ LikeMatch(kw, r.title)
           \/ ColumnLike(kw, r.excerpt)
           \/ LikeMatch(kw, r.url)
  /\ Truthy(f.date_from) => TextLeq(f.date_from.v, r.scraped_date)
  /\ Truthy(f.date_to) => TextLeq(r.scraped_date, f.date_to.v)

\* HotItemsHistoryDB.count_history on the rows the connection sees
CountHistory(rows, f) == Cardinality({r \in rows : Where(f, r)})

\* a WHERE clause that matches the keyword against the title only
QueryWhere_TitleOnly(f, r) ==
  /\ Truthy(f.platforms) =>
       \E i \in 1..Len(f.platforms.v) : r.platform = f.platforms.v[i]
  /\ Truthy(f.keyword) =>
       LikeMatch(<<"%">> \o EscapeLike(f.keyword.v) \o <<"%">>, r.title)
  /\ Truthy(f.date_from) => TextLeq(f.date_from.v, r.scraped_date)
  /\ Truthy(f.date_to) => TextLeq(r.scraped_date, f.date_to.v)

\* the WHERE clause query_history builds, applied to row r
QueryWhere(f, r) ==
  /\ Truthy(f.platforms) =>
       \E i \in 1..Len(f.platforms.v) : r.platform = f.platforms.v[i]
  /\ Truthy(f.keyword) =>
       LET kw == <<"%">> \o EscapeLike(f.keyword.v) \o <<"%">>
       IN  \/ LikeMatch(kw, r.title)
           \/ ColumnLike(kw, r.excerpt)
           \/ LikeMatch(kw, r.url)
  /\ Truthy(f.date_from) => TextLeq(f.date_from.v, r.scraped_date)
  /\ Truthy(f.date_to) => TextLeq(r.scraped_date, f.date_to.v)

\* HotItemsHistoryDB._ALLOWED_ORDERS
ALLOWED_ORDERS ==
  {"scraped_at DESC", "scraped_at ASC", "scraped_date DESC", "scraped_date ASC",
   "heat_value DESC", "heat_value ASC", "rank ASC", "rank DESC", "id DESC", "id ASC"}

\* the ORDER BY term the engine reads from the text put into the query:
\* column names and ASC/DESC are case-insensitive, any column may be named
OrderTerm(text) ==
  CASE text \in {"scraped_at DESC", "scraped_at desc"} -> [field |-> "scraped_at", desc |-> TRUE]
    [] text = "scraped_at ASC" -> [field |-> "scraped_at", desc |-> FALSE]
    [] text = "scraped_date DESC" -> [field |-> "scraped_date", desc |-> TRUE]
    [] text = "scraped_date ASC" -> [field |-> "scraped_date", desc |-> FALSE]
    [] text = "heat_value DESC" -> [field |-> "heat_value", desc |-> TRUE]
    [] text = "heat_value ASC" -> [field |-> "heat_value", desc |-> FALSE]
    [] text \in {"rank ASC", "rank asc", "rank"} -> [field |-> "rank", desc |-> FALSE]
    [] text = "rank DESC" -> [field |-> "rank", desc |-> TRUE]
    [] text = "id DESC" -> [field |-> "id", desc |-> TRUE]
    [] text = "id ASC" -> [field |-> "id", desc |-> FALSE]
    [] text = "title ASC" -> [field |-> "title", desc |-> FALSE]
    [] OTHER -> [field |-> "", desc |-> FALSE]

\* a sorts strictly before b in ascending order of the column: NULL
\* first, integers by value, text under BINARY
Less(field, a, b) ==
  IF field = "id" THEN a.id < b.id
  ELSE IF field \in {"heat_value", "rank"}
  THEN IF a[field] = PyNone THEN b[field] # PyNone
       ELSE b[field] # PyNone /\ a[field].v < b[field].v
  ELSE a[field] # b[field] /\ TextLeq(a[field], b[field])

\* a may not come after b under the term
Precedes(term, a, b) ==
  IF term.desc THEN Less(term.field, b, a) ELSE Less(term.field, a, b)

\* every sequence of the rows of S in which no row precedes an earlier
\* one: rows that tie come in any order
RECURSIVE Sorted(_, _)
Sorted(term, S) ==
  IF S = {} THEN {<<>>}
  ELSE UNION {{<<m>> \o t : t \in Sorted(term, S \ {m})} :
              m \in {x \in S : \A y \in S : ~Precedes(term, y, x)}}

\* the columns query_history selects
QueryColumns ==
  {"id", "platform", "scraped_date", "scraped_at", "rank", "title", "url",
   "heat_text", "heat_value", "excerpt", "image_url", "tags_text"}

\* dict(zip(cols, row))
Project(r) == [c \in QueryColumns |-> r[c]]

\* LIMIT ? OFFSET ?: a negative limit is no limit, a negative offset is 0
Page(q, limit, offset) ==
  LET from == IF offset < 0 THEN 0 ELSE offset
      upto == IF limit < 0 \/ from + limit > Len(q) THEN Len(q) ELSE from + limit
  IN  SubSeq(q, from + 1, upto)

\* query_history without the allow-list: order_by goes into the query
QueryHistory_Unchecked(rows, f, order_by, limit, offset) ==
  LET term == OrderTerm(order_by)
  IN  IF term.field = ""
      THEN [text |-> order_by, raised |-> TRUE, results |-> {<<>>}]
      ELSE [text |-> order_by, raised |-> FALSE,
            results |-> {[i \in 1..Len(Page(q, limit, offset)) |->
                            Project(Page(q, limit, offset)[i])] :
                         q \in Sorted(term, {r \in rows : QueryWhere(f, r)})}]

\* HotItemsHistoryDB.query_history: the ORDER BY text put into the query
\* and the results the engine may return; the engine raises on a text it
\* cannot read as an ORDER BY term
QueryHistory(rows, f, order_by, limit, offset) ==
  LET text == IF order_by \notin ALLOWED_ORDERS THEN "scraped_at DESC" ELSE order_by
      term == OrderTerm(text)
  IN  IF term.field = ""
      THEN [text |-> text, raised |-> TRUE, results |-> {<<>>}]
      ELSE [text |-> text, raised |-> FALSE,
            results |-> {[i \in 1..Len(Page(q, limit, offset)) |->
                            Project(Page(q, limit, offset)[i])] :
                         q \in Sorted(term, {r \in rows : QueryWhere(f, r)})}]

\* the characters of a platform name
NameChars(p) ==
  CASE p = "" -> <<>>
    [] p = "baidu" -> <<"b", "a", "i", "d", "u">>
    [] p = "weibo" -> <<"w", "e", "i", "b", "o">>
    [] p = "zhihu" -> <<"z", "h", "i", "h", "u">>
    [] p = "douyin" -> <<"d", "o", "u", "y", "i", "n">>
    [] p = "cailian" -> <<"c", "a", "i", "l", "i", "a", "n">>

\* SELECT DISTINCT platform ... ORDER BY platform
RECURSIVE DistinctPlatforms(_)
DistinctPlatforms(ps) ==
  IF ps = {} THEN <<>>
  ELSE LET m == CHOOSE x \in ps : \A y \in ps : TextLeq(NameChars(x), NameChars(y))
       IN  <<m>> \o DistinctPlatforms(ps \ {m})

\* HotItemsHistoryDB.list_platforms: the rows of the cursor with a falsy
\* platform are left out
ListPlatforms(rows) ==
  SelectSeq(DistinctPlatforms({r.platform : r \in rows}), LAMBDA p : p # "")

NoFilter == Filter(PyNone, PyNone, PyNone, PyNone)

\* the filters the reads are called with
Filters ==
  {Filter(k, PyNone, PyNone, PyNone) :
     k \in {PyStr(<<>>), PyStr(<<"%">>), PyStr(<<"_">>), PyStr(<<"\\">>),
            PyStr(<<"a">>), PyStr(<<"A", "%", "B">>), PyStr(<<"a", "_", "b">>),
            PyStr(<<"z">>)}}
  \cup {Filter(PyNone, p, PyNone, PyNone) :
          p \in {PyList(<<>>), PyList(<<"baidu">>), PyList(<<"weibo", "baidu">>),
                 PyList(<<"douyin">>)}}
  \cup {Filter(PyNone, PyNone, df, dt) :
          df \in {PyNone, PyStr(Day1), PyStr(Day2)},
          dt \in {PyNone, PyStr(<<>>), PyStr(Day1), PyStr(Day2)}}
  \cup {Filter(PyStr(<<"a">>), PyList(<<"weibo", "baidu">>), df, dt) :
          df \in {PyNone, PyStr(Day1)}, dt \in {PyStr(Day1), PyStr(Day2)}}

\* order_by values a caller may pass: the allow-listed ones and others
Orders ==
  ALLOWED_ORDERS
  \cup {"rank asc", "title ASC", "", "id; DROP TABLE hot_items_history"}

\* the calls of query_history
Queries ==
  {[f |-> f, order_by |-> "scraped_at DESC", limit |-> 50, offset |-> 0] :
     f \in Filters}
  \cup {[f |-> NoFilter, order_by |-> o, limit |-> 50, offset |-> 0] : o \in Orders}
  \cup {[f |-> NoFilter, order_by |-> "id ASC", limit |-> l, offset |-> 1] :
          l \in {1, -1}}

\* ---------------------------------------------------------------- state
VARIABLES
  dbRows,       \* hot_items_history as committed in the database file
  dbSeq,        \* its committed sqlite_sequence entry
  cxOpen,       \* the store's connection is open
  ownConn,      \* the store's _own_conn: it made the connection from db_path
  cxInTx,       \* the connection has an open transaction
  cxRows,       \* the table as the connection sees it
  cxSeq,        \* sqlite_sequence as the connection sees it
  pc,           \* "idle", "cycle" (inside run_once), "client", "crashed"
  names,        \* provider_names of the running cycle
  idx,          \* position of the for loop in names
  total,        \* run_once's total
  cookieBlank,  \* WEIBO_COOKIE.strip() is empty
  clock,        \* the wall clock: the day of January 2025 it shows
  callNo,       \* history: number of upsert_history calls made
  lastCall,     \* history: the latest upsert_history call, until it is over
  cxOrphans,    \* history: ids in the view last written by a call that raised
  dbOrphans,    \* history: the same for the committed rows
  everUpserted, \* history: keys of the records of calls that returned
  visited,      \* history: loop positions the cycle has gone through
  lastRead,     \* history: the latest read or helper call and its result
  session       \* st.session_state of the history page, and the page shown

vars == <<dbRows, dbSeq, cxOpen, ownConn, cxInTx, cxRows, cxSeq, pc, names, idx,
          total, cookieBlank, clock, callNo, lastCall, cxOrphans, dbOrphans,
          everUpserted, visited, lastRead, session>>

storeVars == <<dbRows, dbSeq, cxOpen, ownConn, cxInTx, cxRows, cxSeq, cxOrphans,
               dbOrphans>>

cycleVars == <<names, idx, total, visited>>

NoCall ==
  [platform |-> "", items |-> <<>>, pol |-> Policy("", "", <<>>),
   nowStr |-> <<>>, outcome |-> "none", ret |-> 0, rows |-> <<>>]

\* no read is recorded
NoRead == [op |-> "none"]

\* a browser session that has not run the history page
NoSession == [has_page_num |-> FALSE, page_num |-> 0, shown |-> FALSE,
              current_page |-> 0, total_pages |-> 0]

\* the table is empty, no store is open, no cycle runs
InitStore(blank) ==
  /\ dbRows = {}
  /\ dbSeq = 0
  /\ cxOpen = FALSE
  /\ ownConn = FALSE
  /\ cxInTx = FALSE
  /\ cxRows = {}
  /\ cxSeq = 0
  /\ pc = "idle"
  /\ names = <<>>
  /\ idx = 1
  /\ total = 0
  /\ cookieBlank = blank
  /\ clock = 1
  /\ callNo = 0
  /\ lastCall = NoCall
  /\ cxOrphans = {}
  /\ dbOrphans = {}
  /\ everUpserted = {}
  /\ visited = {}
  /\ session = NoSession

InitWith(blank) == InitStore(blank) /\ lastRead = NoRead

\* HotItemsHistoryDB(db_path=...): sqlite3.connect(db_path), a fresh
\* connection that sees the committed table and that the store owns
Connect ==
  /\ cxOpen' = TRUE
  /\ ownConn' = TRUE
  /\ cxInTx' = FALSE
  /\ cxRows' = dbRows
  /\ cxSeq' = dbSeq
  /\ cxOrphans' = dbOrphans
  /\ UNCHANGED <<dbRows, dbSeq, dbOrphans>>

\* HotItemsHistoryDB(conn=conn) on a connection the caller has just made
\* with sqlite3.connect: the store does not own it
ConnectSupplied ==
  /\ cxOpen' = TRUE
  /\ ownConn' = FALSE
  /\ cxInTx' = FALSE
  /\ cxRows' = dbRows
  /\ cxSeq' = dbSeq
  /\ cxOrphans' = dbOrphans
  /\ UNCHANGED <<dbRows, dbSeq, dbOrphans>>

\* sqlite3.Connection.close(): closing rolls back what the open
\* transaction wrote
ConnClose ==
  /\ cxOpen' = FALSE
  /\ cxInTx' = FALSE
  /\ cxRows' = {}
  /\ cxSeq' = 0
  /\ cxOrphans' = {}
  /\ UNCHANGED <<dbRows, dbSeq, dbOrphans>>

\* a close() that closes whatever connection the store holds
Close_Always == ConnClose /\ UNCHANGED ownConn

\* HotItemsHistoryDB.close(): only a connection the store owns is closed
Close ==
  /\ IF ownConn
     THEN ConnClose
     ELSE UNCHANGED <<cxOpen, cxInTx, cxRows, cxSeq, cxOrphans, dbRows, dbSeq,
                      dbOrphans>>
  /\ UNCHANGED ownConn

\* the call db.upsert_history(platform, items, ...) at wall-clock nowStr
DoUpsert(platform, items, pol, nowStr) ==
  LET res == UpsertHistory([rows |-> cxRows, seq |-> cxSeq], cxInTx,
                           platform, items, pol, nowStr)
      written == {r.id : r \in res.tbl.rows \ cxRows}
      orphans == IF res.outcome = "ProgrammingError"
                 THEN cxOrphans \cup written ELSE cxOrphans \ written
  IN  /\ callNo < MaxCalls
      /\ callNo' = callNo + 1
      /\ cxRows' = res.tbl.rows
      /\ cxSeq' = res.tbl.seq
      /\ cxInTx' = res.inTx
      /\ cxOrphans' = orphans
      /\ IF res.commit
         THEN dbRows' = res.tbl.rows /\ dbSeq' = res.tbl.seq /\ dbOrphans' = orphans
         ELSE UNCHANGED <<dbRows, dbSeq, dbOrphans>>
      /\ lastCall' = [platform |-> platform, items |-> items, pol |-> pol,
                      nowStr |-> nowStr, outcome |-> res.outcome,
                      ret |-> res.ret, rows |-> res.rows]
      /\ everUpserted' = IF res.outcome = "ok"
                         THEN everUpserted \cup {Key(res.rows[i]) : i \in 1..Len(res.rows)}
                         ELSE everUpserted
      /\ lastRead' = NoRead
      /\ UNCHANGED session
      /\ UNCHANGED <<cxOpen, ownConn>>

\* ------------------------------------------------------------- run_once
\* run_once(db_path, provider_names): the store is opened from db_path
RunOnceBegin(ns) ==
  /\ pc = "idle"
  /\ pc' = "cycle"
  /\ names' = ns
  /\ idx' = 1
  /\ total' = 0
  /\ visited' = {}
  /\ Connect
  /\ lastCall' = NoCall
  /\ lastRead' = NoRead
  /\ UNCHANGED session
  /\ UNCHANGED <<cookieBlank, clock, callNo, everUpserted>>

InLoop == pc = "cycle" /\ idx <= Len(names)

\* the loop goes on to the next provider
Continue ==
  /\ idx' = idx + 1
  /\ visited' = visited \cup {idx}
  /\ UNCHANGED <<pc, names, cookieBlank, clock>>

\* name not in SPIDER_REGISTRY: [skip]
SkipUnsupported ==
  /\ InLoop
  /\ Lower(names[idx]) \notin SPIDER_REGISTRY
  /\ Continue
  /\ lastCall' = NoCall
  /\ lastRead' = NoRead
  /\ UNCHANGED session
  /\ UNCHANGED <<storeVars, callNo, everUpserted, total>>

\* SpiderCls() raises
CtorRaisesFor(name) == name = "weibo" /\ cookieBlank

\* SpiderCls() raises: nothing in the loop catches it, the finally clause
\* closes the store and the exception leaves run_once and main
CtorRaises ==
  /\ InLoop
  /\ Lower(names[idx]) \in SPIDER_REGISTRY
  /\ CtorRaisesFor(Lower(names[idx]))
  /\ pc' = "crashed"
  /\ Close
  /\ lastCall' = NoCall
  /\ lastRead' = NoRead
  /\ UNCHANGED session
  /\ UNCHANGED <<names, idx, total, visited, cookieBlank, clock, callNo,
                 everUpserted>>

Fetching ==
  /\ InLoop
  /\ Lower(names[idx]) \in SPIDER_REGISTRY
  /\ ~CtorRaisesFor(Lower(names[idx]))

\* spider.run() raises: caught, next provider
FetchRaises ==
  /\ Fetching
  /\ Continue
  /\ lastCall' = NoCall
  /\ lastRead' = NoRead
  /\ UNCHANGED session
  /\ UNCHANGED <<storeVars, callNo, everUpserted, total>>

\* spider.run() returns no items: next provider
FetchEmpty ==
  /\ Fetching
  /\ Continue
  /\ lastCall' = NoCall
  /\ lastRead' = NoRead
  /\ UNCHANGED session
  /\ UNCHANGED <<storeVars, callNo, everUpserted, total>>

\* spider.run() returns items and they are upserted; an exception of
\* upsert_history is caught
FetchAndUpsert(items) ==
  /\ Fetching
  /\ items # <<>>
  /\ DoUpsert(Lower(names[idx]), items, PlatformPolicy(Lower(names[idx])),
              Strftime(clock))
  /\ total' = total + lastCall'.ret
  /\ Continue

\* the loop is over: finally db.close(), and run_once returns
RunOnceEnd ==
  /\ pc = "cycle"
  /\ idx > Len(names)
  /\ pc' = "idle"
  /\ Close
  /\ names' = <<>>
  /\ idx' = 1
  /\ total' = 0
  /\ visited' = {}
  /\ lastCall' = NoCall
  /\ lastRead' = NoRead
  /\ UNCHANGED session
  /\ UNCHANGED <<cookieBlank, clock, callNo, everUpserted>>

\* ------------------------------------------- a direct user of the store
\* HotItemsHistoryDB(db_path=...)
ClientOpen ==
  /\ pc = "idle"
  /\ pc' = "client"
  /\ Connect
  /\ lastCall' = NoCall
  /\ lastRead' = NoRead
  /\ UNCHANGED session
  /\ UNCHANGED <<cycleVars, cookieBlank, clock, callNo, everUpserted>>

\* db.upsert_history(platform, items, topic_key_field=..., ...)
ClientUpsert(c) ==
  /\ pc = "client"
  /\ DoUpsert(c.platform, c.items, c.pol, Strftime(clock))
  /\ UNCHANGED <<pc, cycleVars, cookieBlank, clock>>

\* db.close()
ClientClose ==
  /\ pc = "client"
  /\ pc' = "idle"
  /\ Close
  /\ lastCall' = NoCall
  /\ lastRead' = NoRead
  /\ UNCHANGED session
  /\ UNCHANGED <<cycleVars, cookieBlank, clock, callNo, everUpserted>>

\* midnight passes
Tick ==
  /\ clock + 1 \in Days
  /\ clock' = clock + 1
  /\ lastCall' = NoCall
  /\ lastRead' = NoRead
  /\ UNCHANGED session
  /\ UNCHANGED <<storeVars, callNo, everUpserted, pc, cycleVars, cookieBlank>>

\* ------------------------------------- a program that reads the store
\* the store is made from db_path, or from a connection the caller made
\* with sqlite3.connect and passes as conn
ReaderOpen(own) ==
  /\ pc = "idle"
  /\ pc' = "reader"
  /\ IF own THEN Connect ELSE ConnectSupplied
  /\ lastCall' = NoCall
  /\ lastRead' = NoRead
  /\ UNCHANGED session
  /\ UNCHANGED <<cycleVars, cookieBlank, clock, callNo, everUpserted>>

\* the program is between two calls: no result is in its hands, or the
\* None that close() returns
Ready == pc = "reader" /\ lastRead.op \in {"none", "close"}

\* what a read leaves alone
ReadFrame ==
  /\ lastCall' = NoCall
  /\ UNCHANGED <<storeVars, pc, cycleVars, cookieBlank, clock, callNo, everUpserted, session>>

\* db.upsert_history(...)
ReaderUpsert(c) ==
  /\ pc = "reader"
  /\ cxOpen
  /\ DoUpsert(c.platform, c.items, c.pol, Strftime(clock))
  /\ UNCHANGED <<pc, cycleVars, cookieBlank, clock>>

\* db.count_history(keyword=..., platforms=..., date_from=..., date_to=...)
ReaderCount(f) ==
  /\ Ready
  /\ cxOpen
  /\ lastRead' = [op |-> "count", f |-> f, out |-> CountHistory(cxRows, f)]
  /\ ReadFrame

\* db.query_history(..., order_by=..., limit=..., offset=...)
ReaderQuery(a) ==
  /\ Ready
  /\ cxOpen
  /\ LET res == QueryHistory(cxRows, a.f, a.order_by, a.limit, a.offset)
     IN  \E q \in res.results :
           lastRead' = [op |-> "query", f |-> a.f, order_by |-> a.order_by,
                        limit |-> a.limit, offset |-> a.offset,
                        text |-> res.text, raised |-> res.raised, out |-> q]
  /\ ReadFrame

\* db.list_platforms()
ReaderList ==
  /\ Ready
  /\ cxOpen
  /\ lastRead' = [op |-> "list", out |-> ListPlatforms(cxRows)]
  /\ ReadFrame

\* any of these calls on a closed connection raises ProgrammingError
ReaderClosed ==
  /\ Ready
  /\ ~cxOpen
  /\ lastRead' = [op |-> "ProgrammingError"]
  /\ ReadFrame

\* the program has looked at the result of its call
ReaderReturn ==
  /\ pc = "reader"
  /\ lastRead.op \notin {"none", "close"}
  /\ lastRead' = NoRead
  /\ ReadFrame

\* db.close(), as often as the program likes
ReaderClose ==
  /\ pc = "reader"
  /\ Close
  /\ lastRead' = [op |-> "close", again |-> lastRead.op = "close"]
  /\ lastCall' = NoCall
  /\ UNCHANGED <<pc, cycleVars, cookieBlank, clock, callNo, everUpserted, session>>

\* the store used directly
Next ==
  \/ ClientOpen
  \/ \E c \in ClientCalls : ClientUpsert(c)
  \/ ClientClose
  \/ Tick

\* the store used by a program that does not import the weibo adapter
Init == InitWith(FALSE)

Spec == Init /\ [][Next]_vars

\* the scraper process: main() runs cycle after cycle
NextCycle ==
  \/ \E ns \in SeqsUpTo(ProviderNames, MaxProviders) : RunOnceBegin(ns)
  \/ SkipUnsupported
  \/ CtorRaises
  \/ FetchRaises
  \/ FetchEmpty
  \/ \E items \in SeqsUpTo(AdapterItems(Strftime(clock)), MaxBatch) : FetchAndUpsert(items)
  \/ RunOnceEnd
  \/ Tick

\* WEIBO_COOKIE is filled in, or left blank
InitCycle == \E blank \in BOOLEAN : InitWith(blank)

SpecCycle == InitCycle /\ [][NextCycle]_vars

\* the store fed with items of every shape
NextFields ==
  \/ ClientOpen
  \/ \E c \in FieldCalls : ClientUpsert(c)
  \/ ClientClose

SpecFields == Init /\ [][NextFields]_vars

\* parse_items has read num from an entry of the payload
InitHeat ==
  /\ InitStore(FALSE)
  /\ \E x \in HeatInputs : lastRead = [op |-> "num", arg |-> x]

\* heat_value = self._parse_heat_value(num)
ParseHeat ==
  /\ lastRead.op = "num"
  /\ lastRead' = [op |-> "_parse_heat_value", arg |-> lastRead.arg,
                  out |-> ParseHeatValue(lastRead.arg)]
  /\ ReadFrame

SpecHeat == InitHeat /\ [][ParseHeat]_vars

\* ------------------------------------------------------ the history page
\* the options of the page-size select box
PageSizeOptions == {20, 50, 100, 200}

\* math.ceil(total / page_size) of a count and a page size
Ceil(n, page_size) == (n + page_size - 1) \div page_size

\* max(1, math.ceil(total / page_size))
TotalPages(n, page_size) == IF Ceil(n, page_size) < 1 THEN 1 ELSE Ceil(n, page_size)

\* a clamp that keeps the page number from falling below 1 only
Clamp_NoUpper(page_num, total_pages) == IF page_num < 1 THEN 1 ELSE page_num

\* min(max(1, st.session_state.page_num), total_pages)
Clamp(page_num, total_pages) ==
  LET low == IF page_num < 1 THEN 1 ELSE page_num
  IN  IF low < total_pages THEN low ELSE total_pages

\* the counts count_history may return: those at and next to a multiple of
\* the smallest page size, where the number of pages changes
Totals ==
  {n \in 0..MaxTotal : \E k \in 0..MaxTotal : n \in {20 * k - 1, 20 * k, 20 * k + 1}}

\* what the user did on the page the browser shows to cause this run:
\* nothing on the pagination row (a first visit, a change of filter, order
\* or page size, a refresh), a press of a button that was enabled there,
\* or a page number typed into the jump box within the limits it had there
Events ==
  {[op |-> "none", to |-> 0]}
  \cup {[op |-> b, to |-> 0] :
          b \in {x \in {"first", "prev"} : session.shown /\ session.current_page > 1}}
  \cup {[op |-> b, to |-> 0] :
          b \in {x \in {"next", "last"} :
                   session.shown /\ session.current_page < session.total_pages}}
  \cup {[op |-> "jump", to |-> j] :
          j \in {k \in 1..session.total_pages : session.shown}}

\* one run of the script: count_history has returned n under the filter in
\* force (the table may have changed since the page was shown), the clamp,
\* the query, and the pagination row, where a press or a jump stores a page
\* number and st.rerun() ends the run
AppRun(n, page_size, event) ==
  LET page_num == IF session.has_page_num THEN session.page_num ELSE 1
      total_pages == TotalPages(n, page_size)
      current_page == Clamp(page_num, total_pages)
      offset == (current_page - 1) * page_size
      rerun == event.op \in {"first", "prev", "next", "last"}
               \/ (event.op = "jump" /\ event.to # current_page)
      stored == CASE event.op = "first" -> 1
                  [] event.op = "prev" -> current_page - 1
                  [] event.op = "next" -> current_page + 1
                  [] event.op = "last" -> total_pages
                  [] event.op = "jump" -> event.to
                  [] OTHER -> current_page
  IN  /\ pc = "idle"
      /\ event \in Events
      /\ session' = IF rerun
                    THEN [session EXCEPT !.has_page_num = TRUE, !.page_num = stored]
                    ELSE [has_page_num |-> TRUE, page_num |-> current_page, shown |-> TRUE,
                          current_page |-> current_page, total_pages |-> total_pages]
      /\ lastRead' = [op |-> "app", had |-> page_num, total |-> n, page_size |-> page_size,
                      total_pages |-> total_pages, current_page |-> current_page,
                      limit |-> page_size, offset |-> offset, event |-> event.op]
      /\ lastCall' = NoCall
      /\ UNCHANGED <<storeVars, pc, cycleVars, cookieBlank, clock, callNo, everUpserted>>

\* the history page, run again and again in one browser session
NextApp ==
  \E n \in Totals, page_size \in PageSizeOptions :
    \E event \in Events : AppRun(n, page_size, event)

SpecApp == Init /\ [][NextApp]_vars

\* the filters, orders and page sizes a caller pages with
PageFilters == {NoFilter, Filter(PyNone, PyList(<<"baidu">>), PyNone, PyNone)}

PageOrders == {"heat_value DESC", "rank ASC", "scraped_at ASC", "scraped_date DESC", "id ASC"}

PageSizes == {1, 2}

\* a caller starts to page: total = db.count_history(...), first offset 0
PagesBegin(f, order_by, limit) ==
  /\ Ready
  /\ cxOpen
  /\ lastRead' = [op |-> "pages", f |-> f, order_by |-> order_by, limit |-> limit,
                  total |-> CountHistory(cxRows, f), offset |-> 0, pages |-> <<>>]
  /\ ReadFrame

\* the caller has asked for every page
PagesDone ==
  lastRead.op = "pages" /\ lastRead.pages # <<>> /\ lastRead.offset >= lastRead.total

\* db.query_history(..., order_by=..., limit=L, offset=k * L), a query of
\* its own for every page
PageNext ==
  /\ pc = "reader"
  /\ cxOpen
  /\ lastRead.op = "pages"
  /\ ~PagesDone
  /\ LET res == QueryHistory(cxRows, lastRead.f, lastRead.order_by,
                             lastRead.limit, lastRead.offset)
     IN  \E q \in res.results :
           lastRead' = [lastRead EXCEPT !.pages = Append(@, q),
                                        !.offset = @ + lastRead.limit]
  /\ ReadFrame

\* a program that writes, then reads page after page
NextPages ==
  \/ ReaderOpen(FALSE)
  \/ \E c \in ReadCalls : ReaderUpsert(c)
  \/ \E f \in PageFilters, o \in PageOrders, l \in PageSizes : PagesBegin(f, o, l)
  \/ PageNext
  \/ ReaderReturn

SpecPages == Init /\ [][NextPages]_vars

\* a program that writes and reads
NextRead ==
  \/ \E own \in BOOLEAN : ReaderOpen(own)
  \/ \E c \in ReadCalls : ReaderUpsert(c)
  \/ \E f \in Filters : ReaderCount(f)
  \/ \E a \in Queries : ReaderQuery(a)
  \/ ReaderList
  \/ ReaderReturn
  \/ ReaderClose
  \/ ReaderClosed

SpecRead == Init /\ [][NextRead]_vars

\* ------------------------------------------------------------ properties
\* the rows of the latest call
CallRows == lastCall.rows

\* the positions in the latest call's rows that carry key k
Carrying(k) == {i \in 1..Len(CallRows) : Key(CallRows[i]) = k}

\* the last of them
LastCarrying(k) == CHOOSE i \in Carrying(k) : \A j \in Carrying(k) : j <= i

\* row r holds, in every mutable column, the value of the record new
HoldsRecord(r, new) == \A f \in MutableFields : r[f] = Stored(new)[f]

\* C1: at most one row of hot_items_history, committed or seen by the
\* connection, carries a given (platform, url, scraped_date)
C1_OneRowPerKey ==
  /\ \A r1, r2 \in dbRows : Key(r1) = Key(r2) => r1 = r2
  /\ \A r1, r2 \in cxRows : Key(r1) = Key(r2) => r1 = r2

\* several keys are stored and more statements ran than rows exist
C1_Witness ==
  /\ lastCall.outcome = "ok"
  /\ Cardinality(dbRows) >= 2
  /\ dbSeq > Cardinality(dbRows)

\* C2: a stored key keeps its id through every later upsert, in the
\* committed table and in the connection's view
C2_IdKept ==
  [][/\ \A r \in dbRows : \A q \in dbRows' : Key(r) = Key(q) => r.id = q.id
     /\ \A r \in cxRows : \A q \in cxRows' : Key(r) = Key(q) => r.id = q.id]_vars

\* the latest call upserted a key whose row is older than the call
C2_Witness ==
  /\ lastCall.outcome = "ok"
  /\ \E r \in dbRows :
       /\ Carrying(Key(r)) # {}
       /\ r.id <= dbSeq - Len(CallRows)
       /\ r.scraped_at = CallRows[LastCarrying(Key(r))].scraped_at

\* C3 (as claimed): the committed table never holds a row that a call
\* whose write raised has written, and holds every record of a call that
\* returned
C3_BatchAtomic ==
  /\ \A r \in dbRows : r.id \notin dbOrphans
  /\ lastCall.outcome = "ok" =>
       \A i \in 1..Len(CallRows) : Key(CallRows[i]) \in Keys(dbRows)

\* C4 (as claimed): what a step commits is what the call of that step
\* wrote
C4_CommitOwnWrites ==
  [][(dbRows' \ dbRows) \subseteq (cxRows' \ cxRows)]_vars

\* C5: an upsert of a key that the connection already sees leaves that
\* row, under its id, with every mutable column equal to the new record
C5_Overwrite ==
  [][(lastCall' # lastCall /\ lastCall'.outcome = "ok") =>
       \A r \in cxRows :
         \A i \in 1..Len(lastCall'.rows) :
           (/\ Key(lastCall'.rows[i]) = Key(r)
            /\ \A j \in 1..Len(lastCall'.rows) :
                 Key(lastCall'.rows[j]) = Key(r) => j <= i)
           => \E q \in cxRows' :
                /\ q.id = r.id
                /\ Key(q) = Key(r)
                /\ \A f \in MutableFields : q[f] = Stored(lastCall'.rows[i])[f]]_vars

\* a row older than the latest call now holds a record of that call which
\* leaves the excerpt, the heat and the image absent
C5_Witness ==
  /\ lastCall.outcome = "ok"
  /\ \E r \in dbRows :
       /\ Carrying(Key(r)) # {}
       /\ r.id <= dbSeq - Len(CallRows)
       /\ r.title = <<"Y">>
       /\ r.excerpt = PyNone /\ r.heat_text = PyNone /\ r.image_url = PyNone

\* C6: after a call whose batch carries a key more than once, exactly
\* one row has that key and it holds the last record of the key
C6_LastInBatchWins ==
  lastCall.outcome = "ok" =>
    \A i \in 1..Len(CallRows) :
      LET k == Key(CallRows[i])
      IN  Cardinality(Carrying(k)) >= 2 =>
            /\ Cardinality({r \in dbRows : Key(r) = k}) = 1
            /\ \A r \in dbRows : Key(r) = k => HoldsRecord(r, CallRows[LastCarrying(k)])

\* the latest call carried a key twice, with different titles
C6_Witness ==
  /\ lastCall.outcome = "ok"
  /\ \E i, j \in 1..Len(CallRows) :
       /\ i < j
       /\ Key(CallRows[i]) = Key(CallRows[j])
       /\ CallRows[i].title # CallRows[j].title

\* the value is missing, None, empty or whitespace only
Blank(v) == v.t = "none" \/ (v.t = "str" /\ Strip(v.v) = <<>>)

\* the items of the latest call with a title and a url
Kept ==
  SelectSeq(lastCall.items,
            LAMBDA it : ~Blank(Get(it, "title")) /\ ~Blank(Get(it, "url")))

\* C7 (as claimed): items without a title or url vanish silently: an
\* AttributeError of the call is due to an item that has both, and a
\* call that returns has written one row for each item that has both
C7_GateSilent ==
  /\ lastCall.outcome = "AttributeError" =>
       \E i \in 1..Len(Kept) : ItemRaises(Kept[i])
  /\ lastCall.outcome = "ok" =>
       /\ Len(CallRows) = Len(Kept)
       /\ \A i \in 1..Len(Kept) :
            /\ CallRows[i].title = Strip(Kept[i]["title"].v)
            /\ Key(CallRows[i]) \in Keys(cxRows)

\* C8 (as claimed): scraped_date is the first ten characters, YYYY-MM-DD,
\* of scraped_at in every row
C8_DatePrefix ==
  \A r \in dbRows \cup cxRows : r.scraped_date = Prefix(r.scraped_at, 10)

\* C9 (as claimed): the stored keys are exactly the keys of the records
\* of the calls that returned
C9_KeysAreUpserted == Keys(dbRows) = everUpserted

\* C10 (as claimed): no exception leaves the loop of run_once, the loop
\* goes through every provider, and the store is closed afterwards
C10_CycleCompletes ==
  /\ pc # "crashed"
  /\ (pc = "cycle" /\ idx > Len(names)) => visited = 1..Len(names)
  /\ pc = "idle" => ~cxOpen

\* the predicate component is given: not None and not empty
Given(v) == v # PyNone /\ v.v # <<>>

\* kw occurs in s as a run of characters, letters compared without
\* regard to ASCII case and every other character exactly
Occurs(kw, s) ==
  \E p \in 0..(Len(s) - Len(kw)) :
    \A i \in 1..Len(kw) : FoldChar(kw[i]) = FoldChar(s[p + i])

\* kw occurs in the title, the excerpt or the url of row r
KeywordIn(kw, r) ==
  \/ Occurs(kw, r.title)
  \/ (r.excerpt # PyNone /\ Occurs(kw, r.excerpt.v))
  \/ Occurs(kw, r.url)

\* row r satisfies every given component of the filter f
Satisfies(f, r) ==
  /\ Given(f.platforms) => r.platform \in {f.platforms.v[i] : i \in 1..Len(f.platforms.v)}
  /\ Given(f.keyword) => KeywordIn(f.keyword.v, r)
  /\ Given(f.date_from) => TextLeq(f.date_from.v, r.scraped_date)
  /\ Given(f.date_to) => TextLeq(r.scraped_date, f.date_to.v)

\* C11: count_history returns the number of rows that satisfy every
\* given component of the filter, 0 when there is none
C11_CountIsMatching ==
  lastRead.op = "count" =>
    lastRead.out = Cardinality({r \in cxRows : Satisfies(lastRead.f, r)})

\* a count under a keyword, platforms and both date bounds that counts
\* some rows and not all
C11_Witness ==
  /\ lastRead.op = "count"
  /\ Given(lastRead.f.keyword) /\ Given(lastRead.f.platforms)
  /\ Given(lastRead.f.date_from) /\ Given(lastRead.f.date_to)
  /\ lastRead.out >= 1
  /\ lastRead.out < Cardinality(cxRows)

\* C12: query_history from offset 0 with a limit that covers the table
\* returns exactly the rows count_history counts under the same filter
C12_QueryMatchesCount ==
  (/\ lastRead.op = "query"
   /\ lastRead.offset = 0
   /\ lastRead.limit >= Cardinality(cxRows)) =>
    /\ Len(lastRead.out) = CountHistory(cxRows, lastRead.f)
    /\ {lastRead.out[i] : i \in 1..Len(lastRead.out)}
         = {Project(r) : r \in {x \in cxRows : Where(lastRead.f, x)}}

\* a query under a keyword that only an excerpt or a url carries
C12_Witness ==
  /\ lastRead.op = "query"
  /\ lastRead.offset = 0
  /\ lastRead.limit >= Cardinality(cxRows)
  /\ Given(lastRead.f.keyword)
  /\ \E i \in 1..Len(lastRead.out) : ~Occurs(lastRead.f.keyword.v, lastRead.out[i].title)
  /\ Len(lastRead.out) < Cardinality(cxRows)

\* the column an allow-listed order names
OrderColumn(o) ==
  CASE o \in {"scraped_at DESC", "scraped_at ASC"} -> "scraped_at"
    [] o \in {"scraped_date DESC", "scraped_date ASC"} -> "scraped_date"
    [] o \in {"heat_value DESC", "heat_value ASC"} -> "heat_value"
    [] o \in {"rank ASC", "rank DESC"} -> "rank"
    [] o \in {"id DESC", "id ASC"} -> "id"

\* the allow-listed order is a descending one
OrderDescending(o) ==
  o \in {"scraped_at DESC", "scraped_date DESC", "heat_value DESC", "rank DESC", "id DESC"}

\* value a of the column does not come after value b in ascending order;
\* rows without a value are not compared
NotAfter(col, a, b) ==
  IF col = "id" THEN a <= b
  ELSE IF col \in {"heat_value", "rank"}
  THEN a = PyNone \/ b = PyNone \/ a.v <= b.v
  ELSE TextLeq(a, b)

\* the sequence q of results is in the order o
InOrder(q, o) ==
  \A i, j \in 1..Len(q) :
    i < j => IF OrderDescending(o)
             THEN NotAfter(OrderColumn(o), q[j][OrderColumn(o)], q[i][OrderColumn(o)])
             ELSE NotAfter(OrderColumn(o), q[i][OrderColumn(o)], q[j][OrderColumn(o)])

\* C13: query_history never raises on its order_by; a value outside the
\* allow-list is not put into the query and the results come by
\* scraped_at descending; an allow-listed value orders the results
C13_OrderAllowList ==
  lastRead.op = "query" =>
    /\ ~lastRead.raised
    /\ IF lastRead.order_by \in ALLOWED_ORDERS
       THEN InOrder(lastRead.out, lastRead.order_by)
       ELSE /\ lastRead.text # lastRead.order_by
            /\ lastRead.text = "scraped_at DESC"
            /\ InOrder(lastRead.out, "scraped_at DESC")

\* a query with an order_by outside the allow-list that names a column,
\* over rows whose order by that column is not the default order
C13_Witness ==
  /\ lastRead.op = "query"
  /\ lastRead.order_by = "rank asc"
  /\ \E i, j \in 1..Len(lastRead.out) :
       /\ i < j
       /\ lastRead.out[i].scraped_at # lastRead.out[j].scraped_at
       /\ lastRead.out[i].rank = PyInt(2)
       /\ lastRead.out[j].rank = PyInt(1)

\* the keyword has one of the characters LIKE gives a meaning to
HasMeta(kw) == \E i \in 1..Len(kw) : kw[i] \in {"%", "_", "\\"}

\* kw occurs in s with its %, _ and \ standing for themselves
OccursLiterally(kw, s) ==
  \E p \in 0..(Len(s) - Len(kw)) :
    \A i \in 1..Len(kw) :
      IF kw[i] \in {"%", "_", "\\"} THEN s[p + i] = kw[i]
      ELSE FoldChar(kw[i]) = FoldChar(s[p + i])

\* kw occurs literally in the title, the excerpt or the url of row r
LiterallyIn(kw, r) ==
  \/ OccursLiterally(kw, r.title)
  \/ (r.excerpt # PyNone /\ OccursLiterally(kw, r.excerpt.v))
  \/ OccursLiterally(kw, r.url)

\* C14: under a keyword with %, _ or \ the reads match only rows that
\* carry the keyword with these characters at their places
C14_MetaLiteral ==
  /\ (lastRead.op = "query" /\ Given(lastRead.f.keyword)
      /\ HasMeta(lastRead.f.keyword.v)) =>
       \A i \in 1..Len(lastRead.out) :
         LiterallyIn(lastRead.f.keyword.v, lastRead.out[i])
  /\ (lastRead.op = "count" /\ Given(lastRead.f.keyword)
      /\ HasMeta(lastRead.f.keyword.v)) =>
       lastRead.out <= Cardinality({r \in cxRows : LiterallyIn(lastRead.f.keyword.v, r)})

\* a count under a keyword with an underscore finds nothing although a
\* row would match if the underscore stood for any character
C14_Witness ==
  /\ lastRead.op = "count"
  /\ lastRead.f.keyword = PyStr(<<"a", "_", "b">>)
  /\ lastRead.out = 0
  /\ \E r \in cxRows : r.title = <<"a", "X", "b">>

\* C15 (as claimed): list_platforms returns, ascending and without
\* duplicates, the platforms of the stored rows, among them the platform
\* of every record of a call that returned
C15_PlatformsListed ==
  lastRead.op = "list" =>
    /\ {lastRead.out[i] : i \in 1..Len(lastRead.out)} = {r.platform : r \in cxRows}
    /\ \A k \in everUpserted : \E i \in 1..Len(lastRead.out) : lastRead.out[i] = k[1]
    /\ \A i, j \in 1..Len(lastRead.out) :
         i < j => /\ lastRead.out[i] # lastRead.out[j]
                  /\ TextLeq(NameChars(lastRead.out[i]), NameChars(lastRead.out[j]))

\* C20: close() closes a connection the store owns and leaves a
\* connection the caller supplied as it is, whatever came before
C20_CloseOwnedOnly ==
  [][lastRead'.op = "close" =>
       IF ownConn
       THEN ~cxOpen'
       ELSE UNCHANGED <<cxOpen, cxInTx, cxRows, cxSeq, dbRows, dbSeq>>]_vars

\* a second close() in a row on a store made from the caller's
\* connection, which is open and sees rows
C20_Witness ==
  /\ lastRead.op = "close"
  /\ lastRead.again
  /\ ~ownConn
  /\ cxOpen
  /\ cxRows # {}

\* the row the connection sees under the key of the i-th row of the call
SeenRow(i) == CHOOSE r \in cxRows : Key(r) = Key(CallRows[i])

\* y is what the coercion may give for x: an integer or nothing, and for
\* the inputs the contract names the value it names
Coerced(x, y) ==
  /\ y = PyNone \/ y.t = "int"
  /\ x = PyStr(<<"4", "2">>) => y = PyInt(42)
  /\ x = PyFloat(42, 9) => y = PyInt(42)
  /\ x = PyStr(<<"4", "2", ".", "9">>) => y = PyInt(42)
  /\ x.t = "int" => y = x
  /\ x \in {PyNone, PyStr(<<>>), PyStr(<<"a", "b", "c">>)} => y = PyNone

\* C16: whatever an item gives under heat_value, num or rank, the call
\* does not raise, the stored heat_value and rank are an integer or
\* absent with the values the contract names, and the record is stored
\* with its other fields
C16_CoercionTotal ==
  lastCall.outcome # "none" =>
    /\ lastCall.outcome = "ok"
    /\ Len(CallRows) = Len(lastCall.items)
    /\ \A i \in 1..Len(CallRows) :
         LET it == lastCall.items[i]
         IN  /\ Key(CallRows[i]) \in Keys(cxRows)
             /\ Coerced(GetDefault(it, "heat_value", Get(it, "num")), SeenRow(i).heat_value)
             /\ Coerced(Get(it, "rank"), SeenRow(i).rank)
             /\ SeenRow(i).title = Strip(it.title.v)
             /\ SeenRow(i).heat_text = Get(it, "heat_text")

\* a record whose heat_value is not a number is stored, heat_value
\* absent, heat_text kept
C16_Witness ==
  /\ lastCall.outcome = "ok"
  /\ Len(lastCall.items) = 1
  /\ Get(lastCall.items[1], "heat_value") = PyStr(<<"a", "b", "c">>)
  /\ \E r \in dbRows :
       /\ Key(r) = Key(CallRows[1])
       /\ r.heat_value = PyNone
       /\ r.heat_text = PyStr(<<"7", "9", "0", "4", "6", "1", "3">>)

\* C18: the stored heat_value is the coercion of the item's heat_value
\* entry, of its num entry only if it has no heat_value key, and absent
\* otherwise; heat_text is stored as given
C18_HeatValueNotDerived ==
  lastCall.outcome = "ok" =>
    \A i \in 1..Len(CallRows) :
      LET it == lastCall.items[i]
      IN  /\ Key(CallRows[i]) \in Keys(cxRows)
          /\ SeenRow(i).heat_value =
               (IF "heat_value" \in DOMAIN it THEN AsInt(it["heat_value"])
                ELSE IF "num" \in DOMAIN it THEN AsInt(it["num"])
                ELSE PyNone)
          /\ SeenRow(i).heat_text = Get(it, "heat_text")

\* a record that supplies only heat_text "7904613" is stored without a
\* heat_value
C18_Witness ==
  /\ lastCall.outcome = "ok"
  /\ Len(lastCall.items) = 1
  /\ DOMAIN lastCall.items[1] = {"title", "url", "scraped_at", "heat_text"}
  /\ \E r \in dbRows :
       /\ Key(r) = Key(CallRows[1])
       /\ r.heat_value = PyNone
       /\ r.heat_text = PyStr(<<"7", "9", "0", "4", "6", "1", "3">>)

\* sub occurs in s
Contains(s, sub) ==
  \E p \in 0..(Len(s) - Len(sub)) : SubSeq(s, p + 1, p + Len(sub)) = sub

\* the trimmed non-blank elements of a list of strings, in order
NonBlank(xs) ==
  LET keep == SelectSeq(xs, LAMBDA x : \E j \in 1..Len(x) : x[j] \notin Whitespace)
  IN  [j \in 1..Len(keep) |-> Strip(keep[j])]

\* C19: whatever fields the policy names and the item carries, the call
\* does not raise and the record is stored; topic_key is null unless the
\* policy names a key the item has; tags_text is null unless the named
\* field is a list with a non-blank element, and then their |-join;
\* extra_json holds the named fields the item has and is null if none
C19_RoutingTotal ==
  lastCall.outcome # "none" =>
    /\ lastCall.outcome = "ok"
    /\ Len(CallRows) = Len(lastCall.items)
    /\ \A i \in 1..Len(CallRows) :
         LET it == lastCall.items[i]
             pol == lastCall.pol
             row == SeenRow(i)
             tags == IF pol.tags_join_from = "" THEN PyNone
                     ELSE Get(it, pol.tags_join_from)
             named == {pol.extra_fields[j] : j \in 1..Len(pol.extra_fields)}
         IN  /\ Key(CallRows[i]) \in Keys(cxRows)
             /\ row.topic_key =
                  (IF pol.topic_key_field = "" \/ pol.topic_key_field \notin DOMAIN it
                   THEN PyNone ELSE it[pol.topic_key_field])
             /\ row.tags_text =
                  (IF tags.t = "list" /\ NonBlank(tags.v) # <<>>
                   THEN PyStr(Join(<<"|">>, NonBlank(tags.v))) ELSE PyNone)
             /\ (row.extra_json = PyNone) <=> (named \cap DOMAIN it = {})
             /\ \A k \in named :
                  (k \in DOMAIN it) <=>
                    (row.extra_json # PyNone
                     /\ Contains(row.extra_json.v, JsonString(KeyChars(k))))

\* under a policy that names a topic key, a tags field and two extra
\* fields, a record that carries only one of the extra fields is stored
C19_Witness ==
  /\ lastCall.outcome = "ok"
  /\ lastCall.pol = Policy("word_scheme", "tags", <<"avatar_url", "ctime">>)
  /\ Len(lastCall.items) = 1
  /\ DOMAIN lastCall.items[1] = {"title", "url", "scraped_at", "avatar_url"}
  /\ \E r \in dbRows :
       /\ Key(r) = Key(CallRows[1])
       /\ r.topic_key = PyNone
       /\ r.tags_text = PyNone
       /\ r.extra_json # PyNone

\* a text of digits and dots that is not a number
NotANumber(x) ==
  /\ x.t = "str"
  /\ x.v # <<>>
  /\ \A i \in 1..Len(x.v) : x.v[i] \in {"0", "1", "2", "3", "4", "5", "6", "7", "8", "9", "."}
  /\ \/ Cardinality({i \in 1..Len(x.v) : x.v[i] = "."}) >= 2
     \/ \A i \in 1..Len(x.v) : x.v[i] = "."

\* C17 (as claimed): _parse_heat_value never raises, gives the values
\* the contract names for "7904613", "23.00 万" and "1.5 亿", and gives
\* nothing for None, an empty text, a text without a number and a text
\* of digits and dots that is not a number
C17_HeatValueTotal ==
  lastRead.op = "_parse_heat_value" =>
    /\ lastRead.out.t # "raise"
    /\ lastRead.arg = PyStr(<<"7", "9", "0", "4", "6", "1", "3">>)
         => lastRead.out = PyBigInt(FALSE, <<"7", "9", "0", "4", "6", "1", "3">>)
    /\ lastRead.arg = PyStr(<<"2", "3", ".", "0", "0", " ", "wan">>)
         => lastRead.out = PyBigInt(FALSE, <<"2", "3", "0", "0", "0", "0">>)
    /\ lastRead.arg = PyStr(<<"1", ".", "5", " ", "yi">>)
         => lastRead.out = PyBigInt(FALSE, <<"1", "5", "0", "0", "0", "0", "0", "0", "0">>)
    /\ lastRead.arg \in {PyNone, PyStr(<<>>), PyStr(<<"a", "b", "c">>)}
         => lastRead.out = PyNone
    /\ NotANumber(lastRead.arg) => lastRead.out = PyNone

\* the rows of all pages, first page first
AllPages == Concat(lastRead.pages)

C22_PageInRange ==
  lastRead.op = "app" =>
    /\ 1 <= lastRead.current_page
    /\ lastRead.current_page <= lastRead.total_pages
    /\ lastRead.total_pages >= 1
    /\ lastRead.total_pages * lastRead.page_size >= lastRead.total
    /\ lastRead.total_pages > 1 =>
         (lastRead.total_pages - 1) * lastRead.page_size < lastRead.total
    /\ lastRead.offset = (lastRead.current_page - 1) * lastRead.page_size
    /\ lastRead.total > 0 => lastRead.offset < lastRead.total

\* a run that finds in the session a page number beyond the last page of
\* a table that is not empty
C22_Witness ==
  /\ lastRead.op = "app"
  /\ lastRead.total > 0
  /\ lastRead.had > lastRead.total_pages
  /\ lastRead.event = "none"

====
